---- MODULE Spec2Model ----
(***************************************************************************)
(* County CAD Tracker utilities.                                           *)
(*                                                                         *)
(*   analyze_excel.py : the column mapper and the critical-field gate      *)
(*                      (specification Spec)                               *)
(*   merge_batches.py : the batch merge loop (specification MergeSpec)     *)
(***************************************************************************)
EXTENDS Integers, Sequences, FiniteSets, TLC

(***************************************************************************)
(* Bounds of the model.                                                    *)
(***************************************************************************)
\* longest header row (number of source columns) explored
MaxCols == 4
\* most batch files that exist in the batches folder
MaxPresent == 2
\* most rows in one batch file
MaxRows == 2

\* range(1, 21): batch_01 .. batch_20
NumBatches == 20

VARIABLES
    \* ---- analyze_excel ----
    pc,                \* position in analyze_excel
    columns,           \* df.columns: the header row of the file, in order
    expected_mapping,  \* the alias table (local of analyze_excel)
    mapped,            \* dict db_field -> source column label
    unmapped,          \* list of source columns not claimed yet
    fieldIdx,          \* position of the outer loop in expected_mapping.items()
    missing_critical,  \* list of absent critical fields
    critIdx,           \* position of the loop over the critical fields
    outcome,           \* what the recommended-action section reported
    \* ---- merge_batches ----
    mpc,               \* position in merge_batches
    i,                 \* loop variable of range(1, 21)
    all_data,          \* list of dataframes read so far
    merged_df,         \* pd.concat(all_data)
    visited,           \* batch indices the loop has visited, in order
    found,             \* indices for which os.path.exists was true
    content,           \* the frames pd.read_excel returned, by batch index
    failed,            \* indices whose pd.read_excel raised
    warned,            \* indices reported "not found, skipping"
    output_written,    \* finishedscraperdata.xlsx was written
    output_rows,       \* content of finishedscraperdata.xlsx
    reported_files,    \* "Successfully merged N batch files"
    reported_rows,     \* "Total records: N"
    no_files_error     \* "No batch files found to merge!" was printed

avars == <<pc, columns, expected_mapping, mapped, unmapped, fieldIdx,
           missing_critical, critIdx, outcome>>
mvars == <<mpc, i, all_data, merged_df, visited, found, content, failed, warned,
           output_written, output_rows, reported_files, reported_rows,
           no_files_error>>
vars == <<avars, mvars>>

(***************************************************************************)
(* Generic helpers.                                                        *)
(***************************************************************************)
Range(s) == {s[k] : k \in 1..Len(s)}

RECURSIVE SeqsUpTo(_, _)
SeqsUpTo(S, n) ==
    IF n = 0 THEN {<<>>}
    ELSE LET P == SeqsUpTo(S, n - 1)
         IN  P \cup {Append(p, x) : p \in {q \in P : Len(q) = n - 1}, x \in S}

Count(s, x) == Cardinality({k \in 1..Len(s) : s[k] = x})

\* s with the element at position k taken out
RemoveAt(s, k) == SubSeq(s, 1, k - 1) \o SubSeq(s, k + 1, Len(s))

\* s is t with some positions left out (same relative order)
RECURSIVE IsSubseq(_, _)
IsSubseq(s, t) ==
    IF s = <<>> THEN TRUE
    ELSE IF t = <<>> THEN FALSE
    ELSE IF Head(s) = Head(t) THEN IsSubseq(Tail(s), Tail(t))
    ELSE IsSubseq(s, Tail(t))

RECURSIVE Flatten(_)
Flatten(ss) == IF ss = <<>> THEN <<>> ELSE Head(ss) \o Flatten(Tail(ss))

EmptyDict == [x \in {} |-> x]

(***************************************************************************)
(* analyze_excel.py                                                        *)
(***************************************************************************)

\* Header labels a file may carry.
Labels ==
    { "Account Number", "account number", "Account Number ",
      "Owner", "OWNER", "Property Address", "Total Due", "Status", "Notes" }

\* the keys of expected_mapping, in the order .items() iterates them
FieldOrder ==
    << "accountNumber", "ownerName", "propertyAddress", "mailingAddress",
       "totalDue", "percentageDue", "status", "taxYear", "legalDescription" >>

\* variant: "Property Address" is also listed for mailingAddress
ExpectedMappingShared ==
    [ accountNumber    |-> <<"Account Number", "ACCOUNT NUMBER", "Account #", "ACCOUNT #">>,
      ownerName        |-> <<"Owner Name", "OWNER NAME", "Owner", "OWNER">>,
      propertyAddress  |-> <<"Property Address", "PROPERTY ADDRESS", "Address", "ADDRESS", "Property Addr">>,
      mailingAddress   |-> <<"Mailing Address", "MAILING ADDRESS", "Mail Address", "Property Address">>,
      totalDue         |-> <<"Total Due", "TOTAL DUE", "Amount Due", "AMOUNT DUE", "Total Amount">>,
      percentageDue    |-> <<"Percentage Due", "PERCENTAGE DUE", "Percent", "PERCENT", "%">>,
      status           |-> <<"Status", "STATUS">>,
      taxYear          |-> <<"Tax Year", "TAX YEAR", "Year">>,
      legalDescription |-> <<"Legal Description", "LEGAL DESCRIPTION", "Legal Desc">> ]

\* expected_mapping = {...}: db field -> accepted column labels
ExpectedMapping ==
    [ accountNumber    |-> <<"Account Number", "ACCOUNT NUMBER", "Account #", "ACCOUNT #">>,
      ownerName        |-> <<"Owner Name", "OWNER NAME", "Owner", "OWNER">>,
      propertyAddress  |-> <<"Property Address", "PROPERTY ADDRESS", "Address", "ADDRESS", "Property Addr">>,
      mailingAddress   |-> <<"Mailing Address", "MAILING ADDRESS", "Mail Address">>,
      totalDue         |-> <<"Total Due", "TOTAL DUE", "Amount Due", "AMOUNT DUE", "Total Amount">>,
      percentageDue    |-> <<"Percentage Due", "PERCENTAGE DUE", "Percent", "PERCENT", "%">>,
      status           |-> <<"Status", "STATUS">>,
      taxYear          |-> <<"Tax Year", "TAX YEAR", "Year">>,
      legalDescription |-> <<"Legal Description", "LEGAL DESCRIPTION", "Legal Desc">> ]

\* variant: status is checked as well
CriticalFieldsWithStatus ==
    << "accountNumber", "ownerName", "propertyAddress", "totalDue", "status" >>

\* variant: totalDue is not checked
CriticalFieldsNoTotalDue ==
    << "accountNumber", "ownerName", "propertyAddress" >>

\* the fields the recommended-action section checks, in its order

CriticalFields ==
    << "accountNumber", "ownerName", "propertyAddress", "totalDue" >>

\* case folding and trimming of the labels used here
Fold(s) ==
    CASE s \in {"Account Number", "ACCOUNT NUMBER", "Account Number "} -> "account number"
      [] s \in {"Owner", "OWNER"} -> "owner"
      [] s \in {"Property Address", "PROPERTY ADDRESS"} -> "property address"
      [] s \in {"Total Due", "TOTAL DUE"} -> "total due"
      [] s \in {"Status", "STATUS"} -> "status"
      [] OTHER -> s

\* variant: the comparison ignores case and surrounding blanks
IsAliasFolded(col, possible_names) ==
    \E k \in 1..Len(possible_names) : Fold(col) = Fold(possible_names[k])

\* `col in possible_names`: string equality against each alias
IsAlias(col, possible_names) ==
    \E k \in 1..Len(possible_names) : col = possible_names[k]

\* variant: the inner loop does not break, the last match stays
LastMatch(cols, possible_names) ==
    LET hits == {k \in 1..Len(cols) : IsAlias(cols[k], possible_names)}
    IN  IF hits = {} THEN 0 ELSE CHOOSE k \in hits : \A h \in hits : h <= k

\* position of the column the inner loop breaks at (0: the loop ran to the
\* end without a match)
FirstMatch(cols, possible_names) ==
    LET hits == {k \in 1..Len(cols) : IsAlias(cols[k], possible_names)}
    IN  IF hits = {} THEN 0 ELSE CHOOSE k \in hits : \A h \in hits : k <= h

\* variant: every element equal to x is taken out
RemoveAll(s, x) == SelectSeq(s, LAMBDA y : y # x)

\* list.remove(x): takes out the first element equal to x
RemoveFirst(s, x) ==
    LET k == CHOOSE k \in 1..Len(s) : s[k] = x /\ \A h \in 1..(k - 1) : s[h] # x
    IN  RemoveAt(s, k)

\* variant: the matched column is not taken out
UnmappedAfterKeep(unm, col) == unm

\* if col in unmapped: unmapped.remove(col)

UnmappedAfter(unm, col) ==
    IF col \in Range(unm) THEN RemoveFirst(unm, col) ELSE unm

AInit ==
    /\ pc = "read"
    /\ columns \in SeqsUpTo(Labels, MaxCols)
    /\ expected_mapping = EmptyDict
    /\ mapped = EmptyDict
    /\ unmapped = <<>>
    /\ fieldIdx = 0
    /\ missing_critical = <<>>
    /\ critIdx = 0
    /\ outcome = "none"

\* df = pd.read_excel(file_path) succeeded; the tables are set up
ReadExcel ==
    /\ pc = "read"
    /\ expected_mapping' = ExpectedMapping
    /\ mapped' = EmptyDict
    /\ unmapped' = columns
    /\ fieldIdx' = 1
    /\ pc' = "map"
    /\ UNCHANGED <<columns, missing_critical, critIdx, outcome>>

\* pd.read_excel raised: except Exception -> return None, None
ReadExcelError ==
    /\ pc = "read"
    /\ pc' = "done"
    /\ outcome' = "error"
    /\ UNCHANGED <<columns, expected_mapping, mapped, unmapped, fieldIdx,
                   missing_critical, critIdx>>

\* one iteration of `for db_field, possible_names in expected_mapping.items()`
MapField ==
    /\ pc = "map"
    /\ fieldIdx <= Len(FieldOrder)
    /\ LET db_field == FieldOrder[fieldIdx]
           possible_names == expected_mapping[db_field]
           k == FirstMatch(columns, possible_names)
       IN  IF k # 0
           THEN /\ mapped' = [f \in DOMAIN mapped \cup {db_field} |->
                                 IF f = db_field THEN columns[k] ELSE mapped[f]]
                /\ unmapped' = UnmappedAfter(unmapped, columns[k])
           ELSE UNCHANGED <<mapped, unmapped>>
    /\ fieldIdx' = fieldIdx + 1
    /\ UNCHANGED <<pc, columns, expected_mapping, missing_critical, critIdx, outcome>>

\* the mapping loop is over; missing_critical = []
StartCritical ==
    /\ pc = "map"
    /\ fieldIdx > Len(FieldOrder)
    /\ missing_critical' = <<>>
    /\ critIdx' = 1
    /\ pc' = "critical"
    /\ UNCHANGED <<columns, expected_mapping, mapped, unmapped, fieldIdx, outcome>>

\* one iteration of the loop over the critical fields
CheckCritical ==
    /\ pc = "critical"
    /\ critIdx <= Len(CriticalFields)
    /\ LET field == CriticalFields[critIdx]
       IN  missing_critical' = IF field \notin DOMAIN mapped
                               THEN Append(missing_critical, field)
                               ELSE missing_critical
    /\ critIdx' = critIdx + 1
    /\ UNCHANGED <<pc, columns, expected_mapping, mapped, unmapped, fieldIdx, outcome>>

\* if missing_critical: CRITICAL FIELDS MISSING, else: all critical fields found
Report ==
    /\ pc = "critical"
    /\ critIdx > Len(CriticalFields)
    /\ outcome' = IF missing_critical # <<>> THEN "blocking" ELSE "ok"
    /\ pc' = "done"
    /\ UNCHANGED <<columns, expected_mapping, mapped, unmapped, fieldIdx,
                   missing_critical, critIdx>>

(***************************************************************************)
(* merge_batches.py                                                        *)
(***************************************************************************)

\* The dataframe pd.read_excel returns for batch k when the file holds n
\* rows; a row is tagged with its file and its position in the file.
BatchRows(k, n) == [r \in 1..n |-> <<k, r>>]

\* variant: the frame is put in front
PrependDf(data, df) == <<df>> \o data

\* all_data.append(df)

AppendDf(data, df) == Append(data, df)

\* pd.concat(all_data, ignore_index=True): the rows of the frames, in list order
Concat(data) == Flatten(data)

\* variant: the merge branch is taken whatever was read
HasDataAlways(data) == TRUE

\* `if all_data:` a list is true when it is not empty

HasData(data) == data # <<>>

\* variant: the exception is caught and the loop goes on with the next batch
OnReadErrorSkip(k) == [mpc |-> "loop", i |-> k + 1]

\* pd.read_excel raised inside the loop for batch k: nothing catches it, the
\* script ends with the traceback

OnReadError(k) == [mpc |-> "crashed", i |-> k]

MIdle ==
    /\ mpc = "idle"
    /\ i = 0
    /\ all_data = <<>>
    /\ merged_df = <<>>
    /\ visited = <<>>
    /\ found = {}
    /\ content = EmptyDict
    /\ failed = {}
    /\ warned = {}
    /\ output_written = FALSE
    /\ output_rows = <<>>
    /\ reported_files = 0
    /\ reported_rows = 0
    /\ no_files_error = FALSE

\* all_data = []; the loop is about to start at i = 1
MInit ==
    /\ mpc = "loop"
    /\ i = 1
    /\ all_data = <<>>
    /\ merged_df = <<>>
    /\ visited = <<>>
    /\ found = {}
    /\ content = EmptyDict
    /\ failed = {}
    /\ warned = {}
    /\ output_written = FALSE
    /\ output_rows = <<>>
    /\ reported_files = 0
    /\ reported_rows = 0
    /\ no_files_error = FALSE

AIdle ==
    /\ pc = "idle"
    /\ columns = <<>>
    /\ expected_mapping = EmptyDict
    /\ mapped = EmptyDict
    /\ unmapped = <<>>
    /\ fieldIdx = 0
    /\ missing_critical = <<>>
    /\ critIdx = 0
    /\ outcome = "none"

\* os.path.exists(batch_path) is true and pd.read_excel returns the frame
ReadBatch ==
    /\ mpc = "loop"
    /\ i <= NumBatches
    /\ Cardinality(found) < MaxPresent
    /\ \E n \in 0..MaxRows :
          /\ all_data' = AppendDf(all_data, BatchRows(i, n))
          /\ content' = [k \in DOMAIN content \cup {i} |->
                            IF k = i THEN BatchRows(i, n) ELSE content[k]]
    /\ found' = found \cup {i}
    /\ visited' = Append(visited, i)
    /\ i' = i + 1
    /\ UNCHANGED <<mpc, merged_df, failed, warned, output_written, output_rows,
                   reported_files, reported_rows, no_files_error>>

\* os.path.exists(batch_path) is true and pd.read_excel raises
ReadBatchError ==
    /\ mpc = "loop"
    /\ i <= NumBatches
    /\ Cardinality(found) < MaxPresent
    /\ found' = found \cup {i}
    /\ failed' = failed \cup {i}
    /\ visited' = Append(visited, i)
    /\ mpc' = OnReadError(i).mpc
    /\ i' = OnReadError(i).i
    /\ UNCHANGED <<all_data, merged_df, content, warned, output_written,
                   output_rows, reported_files, reported_rows, no_files_error>>

\* os.path.exists(batch_path) is false: warning, next index
SkipMissing ==
    /\ mpc = "loop"
    /\ i <= NumBatches
    /\ warned' = warned \cup {i}
    /\ visited' = Append(visited, i)
    /\ i' = i + 1
    /\ UNCHANGED <<mpc, all_data, merged_df, found, content, failed,
                   output_written, output_rows, reported_files, reported_rows,
                   no_files_error>>

\* if all_data: merged_df = pd.concat(all_data, ignore_index=True)
MergeAll ==
    /\ mpc = "loop"
    /\ i > NumBatches
    /\ HasData(all_data)
    /\ merged_df' = Concat(all_data)
    /\ mpc' = "save"
    /\ UNCHANGED <<i, all_data, visited, found, content, failed, warned,
                   output_written, output_rows, reported_files, reported_rows,
                   no_files_error>>

\* merged_df.to_excel(output_file, ...) succeeds
Save ==
    /\ mpc = "save"
    /\ output_written' = TRUE
    /\ output_rows' = merged_df
    /\ mpc' = "report"
    /\ UNCHANGED <<i, all_data, merged_df, visited, found, content, failed,
                   warned, reported_files, reported_rows, no_files_error>>

\* merged_df.to_excel raises (nothing catches it)
SaveError ==
    /\ mpc = "save"
    /\ mpc' = "crashed"
    /\ UNCHANGED <<i, all_data, merged_df, visited, found, content, failed,
                   warned, output_written, output_rows, reported_files,
                   reported_rows, no_files_error>>

\* "Successfully merged {len(all_data)} batch files", "Total records: ..."
ReportMerged ==
    /\ mpc = "report"
    /\ reported_files' = Len(all_data)
    /\ reported_rows' = Len(merged_df)
    /\ mpc' = "done"
    /\ UNCHANGED <<i, all_data, merged_df, visited, found, content, failed,
                   warned, output_written, output_rows, no_files_error>>

\* else: "No batch files found to merge!"
NoFiles ==
    /\ mpc = "loop"
    /\ i > NumBatches
    /\ ~HasData(all_data)
    /\ no_files_error' = TRUE
    /\ mpc' = "done"
    /\ UNCHANGED <<i, all_data, merged_df, visited, found, content, failed,
                   warned, output_written, output_rows, reported_files,
                   reported_rows>>

(***************************************************************************)
(* Specifications.                                                         *)
(***************************************************************************)
Init == AInit /\ MIdle

Next ==
    \/ ReadExcel /\ UNCHANGED mvars
    \/ ReadExcelError /\ UNCHANGED mvars
    \/ MapField /\ UNCHANGED mvars
    \/ StartCritical /\ UNCHANGED mvars
    \/ CheckCritical /\ UNCHANGED mvars
    \/ Report /\ UNCHANGED mvars

Spec == Init /\ [][Next]_vars

MergeInit == MInit /\ AIdle

MergeNext ==
    \/ ReadBatch /\ UNCHANGED avars
    \/ ReadBatchError /\ UNCHANGED avars
    \/ SkipMissing /\ UNCHANGED avars
    \/ MergeAll /\ UNCHANGED avars
    \/ Save /\ UNCHANGED avars
    \/ SaveError /\ UNCHANGED avars
    \/ ReportMerged /\ UNCHANGED avars
    \/ NoFiles /\ UNCHANGED avars

MergeSpec == MergeInit /\ [][MergeNext]_vars

(***************************************************************************)
(* Properties of analyze_excel (checked under Spec).                       *)
(***************************************************************************)

\* the mapping loop has run over every field of the alias table
MapDone ==
    \/ pc = "map" /\ fieldIdx > Len(FieldOrder)
    \/ pc = "critical"
    \/ pc = "done" /\ outcome # "error"

\* the mapping loop is running or has finished
InMap == pc \in {"map", "critical"} \/ (pc = "done" /\ outcome # "error")

\* fields whose mapped value is the label x
FieldsMappedTo(x) == {f \in DOMAIN mapped : mapped[f] = x}

\* positions of the source columns whose label is one of the aliases of f
Hits(f) ==
    {k \in 1..Len(columns) :
        \E a \in 1..Len(expected_mapping[f]) : columns[k] = expected_mapping[f][a]}

AllFields == {FieldOrder[n] : n \in 1..Len(FieldOrder)}

\* C1: when the mapping loop finishes, every source column (position) is
\* accounted for exactly once, as a value of mapped or as an entry of
\* unmapped: for every label, its occurrences among the columns are its
\* occurrences in unmapped plus the fields mapped to it, and so
\* |mapped| + |unmapped| = |columns|.
Thm_C1 ==
    MapDone =>
        /\ Cardinality(DOMAIN mapped) + Len(unmapped) = Len(columns)
        /\ \A x \in Range(columns) \cup Range(unmapped) \cup {mapped[f] : f \in DOMAIN mapped} :
              Count(columns, x) = Count(unmapped, x) + Cardinality(FieldsMappedTo(x))

\* a header with a duplicated label, one occurrence mapped, the other left over
Wit_C1 ==
    /\ pc = "done"
    /\ columns = <<"Owner", "Notes", "Owner">>
    /\ DOMAIN mapped = {"ownerName"}
    /\ unmapped = <<"Notes", "Owner">>

\* C2: first match wins in source-column order: for every field with at
\* least one source column among its aliases, mapped[field] is the label of
\* the earliest such column, exactly one occurrence of that label has left
\* unmapped, and every other column satisfying the field is still in unmapped.
Thm_C2 ==
    MapDone =>
        \A f \in AllFields :
            Hits(f) # {} =>
                LET first == CHOOSE k \in Hits(f) : \A h \in Hits(f) : k <= h
                IN  /\ f \in DOMAIN mapped
                    /\ mapped[f] = columns[first]
                    /\ Count(unmapped, mapped[f]) = Count(columns, mapped[f]) - 1
                    /\ \A h \in Hits(f) :
                          columns[h] # mapped[f] =>
                              Count(unmapped, columns[h]) = Count(columns, columns[h])

\* the example of the claim: ["Owner", "OWNER"]
Wit_C2 ==
    /\ pc = "done"
    /\ columns = <<"Owner", "OWNER">>
    /\ "ownerName" \in DOMAIN mapped
    /\ mapped["ownerName"] = "Owner"
    /\ unmapped = <<"OWNER">>

\* C3: exact match only: a field is in mapped if and only if some source
\* column is string-equal to one of its aliases; a column equal to no alias
\* (such as "account number" or "Account Number " with a trailing blank)
\* stays in unmapped and maps no field.
Thm_C3 ==
    MapDone =>
        /\ \A f \in AllFields : (f \in DOMAIN mapped) <=> (Hits(f) # {})
        /\ \A k \in 1..Len(columns) :
              (\A f \in AllFields : k \notin Hits(f)) =>
                  /\ Count(unmapped, columns[k]) = Count(columns, columns[k])
                  /\ FieldsMappedTo(columns[k]) = {}
        /\ ("Account Number" \notin Range(columns)) => ("accountNumber" \notin DOMAIN mapped)

\* a header whose labels differ from the alias "Account Number" by case or by
\* a trailing blank only
Wit_C3 ==
    /\ pc = "done"
    /\ columns = <<"account number", "Account Number ">>
    /\ mapped = EmptyDict
    /\ unmapped = columns

\* C4: the outcome is blocking if and only if one of accountNumber,
\* ownerName, propertyAddress, totalDue is absent from mapped, and
\* non-blocking otherwise; the missing list is exactly the absent critical
\* fields in that order; the absence of any other field never blocks.
Thm_C4 ==
    (pc = "done" /\ outcome # "error") =>
        LET four == <<"accountNumber", "ownerName", "propertyAddress", "totalDue">>
            absent(f) == f \notin DOMAIN mapped
        IN  /\ outcome \in {"blocking", "ok"}
            /\ (outcome = "blocking") <=> (\E n \in 1..4 : absent(four[n]))
            /\ missing_critical = SelectSeq(four, absent)

\* the example of the claim: ["Account Number", "Notes"]
Wit_C4 ==
    /\ pc = "done"
    /\ columns = <<"Account Number", "Notes">>
    /\ outcome = "blocking"
    /\ missing_critical = <<"ownerName", "propertyAddress", "totalDue">>

\* C5: the alias lists of the table are pairwise disjoint, and no source
\* column label is the value of mapped for two different fields.
Thm_C5 ==
    InMap =>
        /\ \A f, g \in AllFields :
              f # g => Range(expected_mapping[f]) \cap Range(expected_mapping[g]) = {}
        /\ \A f, g \in DOMAIN mapped : f # g => mapped[f] # mapped[g]

\* four fields mapped, to four labels
Wit_C5 ==
    /\ pc = "done"
    /\ Cardinality(DOMAIN mapped) = 4
    /\ Cardinality({mapped[f] : f \in DOMAIN mapped}) = 4

\* C8: for an empty source column sequence the mapper ends with mapped and
\* unmapped empty, and the critical-field check reports all four critical
\* fields missing.
Thm_C8 ==
    /\ (MapDone /\ columns = <<>>) => (mapped = EmptyDict /\ unmapped = <<>>)
    /\ (pc = "done" /\ outcome # "error" /\ columns = <<>>) =>
          /\ missing_critical = <<"accountNumber", "ownerName", "propertyAddress", "totalDue">>
          /\ outcome = "blocking"

\* the run on an empty header has finished
Wit_C8 ==
    /\ pc = "done"
    /\ columns = <<>>
    /\ outcome = "blocking"
    /\ Len(missing_critical) = 4

\* C9: unmapped is at every step a subsequence of the source columns, a step
\* of the mapping loop takes at most one entry out of it and adds none, and
\* neither the source columns nor the alias table are modified.
Thm_C9 ==
    /\ [](InMap => IsSubseq(unmapped, columns))
    /\ [][/\ columns' = columns
          /\ pc # "read" => expected_mapping' = expected_mapping
          /\ pc = "map" => /\ IsSubseq(unmapped', unmapped)
                           /\ Len(unmapped') >= Len(unmapped) - 1
          /\ pc \in {"critical", "done"} => unmapped' = unmapped]_vars

\* a duplicated label: one occurrence was taken out, the other kept its place
Wit_C9 ==
    /\ pc = "map"
    /\ fieldIdx = 3
    /\ columns = <<"Notes", "Owner", "Status", "Owner">>
    /\ unmapped = <<"Notes", "Status", "Owner">>

(***************************************************************************)
(* Properties of merge_batches (checked under MergeSpec).                  *)
(***************************************************************************)

Terminated == mpc \in {"done", "crashed"}

\* <<1, 2, ..., n>>
UpTo(n) == [k \in 1..n |-> k]

\* rows of the frames that were read, by ascending batch index
RECURSIVE RowsFrom(_)
RowsFrom(k) ==
    IF k > NumBatches THEN <<>>
    ELSE (IF k \in DOMAIN content THEN content[k] ELSE <<>>) \o RowsFrom(k + 1)

RECURSIVE SumRows(_)
SumRows(S) ==
    IF S = {} THEN 0
    ELSE LET k == CHOOSE k \in S : TRUE IN Len(content[k]) + SumRows(S \ {k})

\* C6 as stated: every run visits batch_01 .. batch_20 once each in
\* ascending order, and writes the output file if and only if at least one
\* of the files was found (reporting the error when none was).
C6_AsStated ==
    Terminated =>
        /\ visited = UpTo(NumBatches)
        /\ output_written <=> (found # {})
        /\ (found = {}) => no_files_error

\* C6 (amended): batches are visited in ascending order, each once; a
\* missing file is warned about and skipped and never ends the run; the
\* output is written only after all 20 were visited and one was found; a
\* run that ends normally has visited all 20 and has written the output if
\* and only if a file was found, reporting the error otherwise; a run ended
\* by an exception of the read or of the write leaves no output.
Thm_C6 ==
    /\ visited = UpTo(Len(visited))
    /\ mpc = "loop" => i = Len(visited) + 1
    /\ warned = Range(visited) \ found
    /\ (mpc = "crashed") => (~output_written /\ (failed # {} \/ i > NumBatches))
    /\ output_written => (found # {} /\ visited = UpTo(NumBatches))
    /\ no_files_error => (found = {} /\ visited = UpTo(NumBatches))
    /\ (mpc = "done") =>
          /\ visited = UpTo(NumBatches)
          /\ output_written <=> (found # {})
          /\ no_files_error <=> (found = {})

\* no file at all: the run ends with the error and no output
Wit_C6 ==
    /\ mpc = "done"
    /\ found = {}
    /\ warned = 1..NumBatches
    /\ no_files_error
    /\ ~output_written

\* C7 as stated: a run in which the read of an existing file failed ends
\* like a run in which that file was absent: every batch was visited and
\* the frames of the other files were merged and written.
C7_AsStated ==
    (Terminated /\ failed # {}) =>
        /\ visited = UpTo(NumBatches)
        /\ HasData(all_data) => (output_written /\ output_rows = Concat(all_data))

\* C7 (amended): a read failure on an existing batch file is not handled
\* like a missing file: the exception ends the run at that file, no later
\* batch is visited, nothing is merged and no output file is written.
Thm_C7 ==
    (failed # {}) =>
        /\ mpc = "crashed"
        /\ \E k \in 1..NumBatches : failed = {k} /\ visited = UpTo(k) /\ i = k
        /\ failed \subseteq found
        /\ failed \cap warned = {}
        /\ ~output_written
        /\ merged_df = <<>>
        /\ ~no_files_error

\* one file was read, a later one failed, batches were still to come
Wit_C7 ==
    /\ failed # {}
    /\ HasData(all_data)
    /\ warned # {}
    /\ Len(visited) < NumBatches

\* C10: when at least one batch file is found the merged data is the rows
\* of exactly the found files, by ascending batch index and in file order;
\* the merged row count is the sum of their row counts, the reported number
\* of files is the number of found files, and no row of a skipped file
\* appears; the output file holds the merged data.
Thm_C10 ==
    /\ (mpc \in {"save", "report", "done"} /\ found # {}) =>
          /\ DOMAIN content = found
          /\ merged_df = RowsFrom(1)
          /\ Len(merged_df) = SumRows(found)
          /\ \A r \in 1..Len(merged_df) : merged_df[r][1] \in found \ warned
    /\ output_written => output_rows = merged_df
    /\ (mpc = "done" /\ found # {}) =>
          /\ reported_files = Cardinality(found)
          /\ reported_rows = SumRows(found)

\* two files with rows found among skipped ones, merged and written
Wit_C10 ==
    /\ mpc = "done"
    /\ output_written
    /\ Cardinality(found) = 2
    /\ warned # {}
    /\ \A k \in found : Len(content[k]) = 2
    /\ Len(output_rows) = 4

====
